---- MODULE Spec2Model ----
(***************************************************************************)
(* CodeVisor: the FlowchartGenerator component (src/unnamed/part_000).     *)
(* The model covers the component's React state, the asynchronous          *)
(* generateFlowchart handler (validation, clearing, fetch with a 10 s      *)
(* abort timer, response handling, catch/finally), handleRefresh, the     *)
(* playback controls with their interval, and the highlight effect.  The   *)
(* last section covers fetchFlowchart of codeParser.js.                    *)
(*                                                                         *)
(* A JavaScript string that the code inspects character by character (the  *)
(* submitted code, the text of a thrown Error) is a sequence of pieces     *)
(* whose concatenation is the string; pieces of user input are single      *)
(* characters.  Strings that the code only stores and compares (the        *)
(* flowchart markup, the fixed messages) are TLA+ strings.  The messages   *)
(* are written without the leading emoji of the source.                    *)
(***************************************************************************)
EXTENDS Integers, Sequences, FiniteSets, TLC

VARIABLES
  code,                    \* useState("")      part_000:138
  language,                \* useState("python") part_000:139
  flowchartSvg,            \* useState("")      part_000:141
  executionSteps,          \* useState([])      part_000:142
  currentStep,             \* useState(-1)      part_000:143
  isPlaying,               \* useState(false)   part_000:144
  loading,                 \* useState(false)   part_000:145
  errorMsg,                \* useState("")      part_000:147
  complexityAnalysis,      \* useState(null)    part_000:152
  optimizationSuggestions, \* useState(null)    part_000:153
  memoryAnalysis,          \* useState(null)    part_000:154
  requests,                \* the generateFlowchart calls that have not finished
  sent,                    \* the request body the last handler gave to fetch
  consoleLog,              \* the error the last handler gave to console.error
  received,                \* what the network gave the last handler: the status
                           \* of a response, or a parsed body (with the code of
                           \* the call that parsed it)
  control,                 \* history: the playback control the last step was
                           \* ("play", "pause", "back", "forward", "tick")
  ticks,                   \* history: the interval callbacks that have run since
                           \* Play was pressed at currentStep = -1 with nothing
                           \* else in between
  highlighted,             \* the g.node elements of the rendered flowchart whose
                           \* style.filter is the drop-shadow, by their <title>
  flowchartCall            \* the call of fetchFlowchart (codeParser.js): its
                           \* position and, once it has returned, its result

vars == <<code, language, flowchartSvg, executionSteps, currentStep, isPlaying,
          loading, errorMsg, complexityAnalysis, optimizationSuggestions,
          memoryAnalysis, requests, sent, consoleLog, received, control, ticks,
          highlighted, flowchartCall>>

slots == <<flowchartSvg, executionSteps, complexityAnalysis,
           optimizationSuggestions, memoryAnalysis>>

(***************************************************************************)
(* Bounds of the model.                                                    *)
(***************************************************************************)
MaxInFlight == 1
MaxSteps == 2

(***************************************************************************)
(* Characters and strings.                                                 *)
(***************************************************************************)
Whitespace == {" ", "\t", "\n", "\r", "\f"}
LineTerminators == {"\n", "\r"}
WordChars ==
  {"a","b","c","d","e","f","g","h","i","j","k","l","m","n","o","p","q","r",
   "s","t","u","v","w","x","y","z",
   "A","B","C","D","E","F","G","H","I","J","K","L","M","N","O","P","Q","R",
   "S","T","U","V","W","X","Y","Z",
   "0","1","2","3","4","5","6","7","8","9","_"}

RECURSIVE TrimStart(_)
TrimStart(s) ==
  IF s # <<>> /\ Head(s) \in Whitespace THEN TrimStart(Tail(s)) ELSE s

RECURSIVE TrimEnd(_)
TrimEnd(s) ==
  IF s # <<>> /\ s[Len(s)] \in Whitespace
    THEN TrimEnd(SubSeq(s, 1, Len(s) - 1))
    ELSE s

Trim(s) == TrimEnd(TrimStart(s))

\* !code.trim()
IsBlankNoTrim(c) == c = <<>>
IsBlank(c) == Trim(c) = <<>>

(***************************************************************************)
(* code.replace(/for\s+\w+\s+in\s+range\(.*\):/g, replacement)             *)
(* part_000:297-300.  Positions are 1-based; a position past the end of    *)
(* the string is Len(s) + 1.                                               *)
(***************************************************************************)
LitAt(s, i, lit) ==
  /\ i + Len(lit) - 1 <= Len(s)
  /\ \A k \in 1..Len(lit) : s[i + k - 1] = lit[k]

\* the first position at or after i whose character is not in set S
RECURSIVE SkipWhile(_, _, _)
SkipWhile(s, i, S) ==
  IF i <= Len(s) /\ s[i] \in S THEN SkipWhile(s, i + 1, S) ELSE i

\* the first position at or after i that holds a line terminator ('.' stops there)
RECURSIVE LineEnd(_, _)
LineEnd(s, i) ==
  IF i <= Len(s) /\ s[i] \notin LineTerminators THEN LineEnd(s, i + 1) ELSE i

\* the positions j in from..to-2 where "):" starts; '.*' is greedy, so the
\* match ends at the last of them
CloseAt(s, from, to) ==
  {j \in from..(to - 2) : s[j] = ")" /\ s[j + 1] = ":"}

MaxOf(S) == CHOOSE x \in S : \A y \in S : y <= x

\* 0 when the pattern does not match at position i, otherwise the position
\* right after the match.  \s and \w are disjoint classes, so each greedy
\* '+' consumes its whole run and backtracking cannot find another match.
MatchEnd(s, i) ==
  IF ~LitAt(s, i, <<"f","o","r">>) THEN 0 ELSE
  LET p1 == i + 3
      p2 == SkipWhile(s, p1, Whitespace)
      p3 == SkipWhile(s, p2, WordChars)
      p4 == SkipWhile(s, p3, Whitespace)
      p5 == p4 + 2
      p6 == SkipWhile(s, p5, Whitespace)
      p7 == p6 + 6
      closes == CloseAt(s, p7, LineEnd(s, p7))
  IN  IF /\ p2 > p1 /\ p3 > p2 /\ p4 > p3
         /\ LitAt(s, p4, <<"i","n">>)
         /\ p6 > p5
         /\ LitAt(s, p6, <<"r","a","n","g","e","(">>)
         /\ closes # {}
        THEN MaxOf(closes) + 2
        ELSE 0

\* the replacement text, one piece (it holds no '$' pattern)
Replacement ==
  <<"# Optimized: Use dictionary for faster lookups\nlookup_dict = {}\nfor key, value in enumerate(range(...)):\n    lookup_dict[key] = value">>

RECURSIVE ReplaceFrom(_, _)
ReplaceFrom(s, i) ==
  IF i > Len(s) THEN <<>>
  ELSE LET e == MatchEnd(s, i)
       IN  IF e # 0 THEN Replacement \o ReplaceFrom(s, e)
                    ELSE <<s[i]>> \o ReplaceFrom(s, i + 1)

(***************************************************************************)
(* The inputs of the model: what the user can type, and what the analysis  *)
(* service can answer.                                                     *)
(***************************************************************************)
CodeEmpty == <<>>
CodeSpaces == <<" ", "\n">>
CodeAssign == <<"x", "=", "1">>
CodeFor ==
  <<"f","o","r"," ","i"," ","i","n"," ","r","a","n","g","e","(","n",")",":">>
CodeInputs == {CodeEmpty, CodeSpaces, CodeAssign, CodeFor}

\* code.replace(...) of every input, tabulated
ReplacedCode == [c \in CodeInputs |-> ReplaceFrom(c, 1)]
ReplaceForRange(s) == ReplacedCode[s]

\* part_000:204-208
languages == {"python", "cpp", "java"}

\* the options the user of the model picks in the dropdown: the initial one
\* and one other
LanguageInputs == {"python", "java"}

Null == [null |-> TRUE]

StepAt(i) == [node_id |-> i, description |-> i]
StepsOfLen(n) == [i \in 1..n |-> StepAt(i)]

ServerComplexity ==
  [time_complexity |-> "O(n^2)", space_complexity |-> "O(n)",
   details |-> <<"Nested loops.">>]
ServerOptimization ==
  [suggestions |-> <<"Hoist the invariant.">>, optimized_code |-> <<"p","a","s","s">>]
ServerMemory ==
  [estimated_memory_usage |-> "2 KB",
   bottlenecks |-> <<[line |-> 1, description |-> "list copy"]>>,
   suggestions |-> <<[line |-> 1, suggestion |-> "use a generator"]>>]

FieldNames == {"flowchart", "execution_steps", "complexity_analysis",
               "optimization_suggestions", "memory_analysis"}

\* A parsed response body: the fields it carries and their values (the value
\* of a field the body does not carry is never read).
Data(present, f, n) ==
  [present |-> present,
   flowchart |-> IF "flowchart" \in present THEN f ELSE "",
   execution_steps |-> IF "execution_steps" \in present THEN StepsOfLen(n) ELSE <<>>,
   complexity_analysis |-> ServerComplexity,
   optimization_suggestions |-> ServerOptimization,
   memory_analysis |-> ServerMemory]

Responses ==
  {Data(P, f, n) : P \in SUBSET FieldNames, f \in {"", "<svg/>"}, n \in 0..MaxSteps}

Statuses == {200, 404, 500}

(***************************************************************************)
(* Errors and messages.                                                    *)
(***************************************************************************)
Digits == <<"0","1","2","3","4","5","6","7","8","9">>

\* `${response.status}`: the decimal digits of a non-negative integer
RECURSIVE DecimalString(_)
DecimalString(n) ==
  IF n < 10 THEN <<Digits[n + 1]>>
  ELSE DecimalString(n \div 10) \o <<Digits[(n % 10) + 1]>>

\* sub occurs in text as a run of consecutive pieces
Contains(text, sub) ==
  \E i \in 1..(Len(text) - Len(sub) + 1) : SubSeq(text, i, i + Len(sub) - 1) = sub

MsgNone == <<>>
MsgEnterCode == <<"Please enter some code.">>
MsgGenerationFailed == <<"Error generating flowchart.">>
MsgTimedOut == <<"Request timed out. Please try again.">>
MsgServerFailed == <<"Server failed. Check console.">>

\* response.ok
Ok(status) == 200 <= status /\ status <= 299

AbortError == [name |-> "AbortError", message |-> <<"The operation was aborted.">>]
NetworkError == [name |-> "TypeError", message |-> <<"Failed to fetch">>]
BodyError == [name |-> "SyntaxError", message |-> <<"Unexpected end of JSON input">>]

\* new Error(`HTTP error! Status: ${response.status}`)
HttpErrorNoStatus(status) == [name |-> "Error", message |-> <<"HTTP error!">>]
HttpError(status) ==
  [name |-> "Error", message |-> <<"HTTP error! Status: ">> \o DecimalString(status)]

\* the message the catch block shows
ErrorMessageGeneric(error) == MsgServerFailed
ErrorMessageFor(error) ==
  IF error.name = "AbortError" THEN MsgTimedOut ELSE MsgServerFailed

(***************************************************************************)
(* The request and the merge of the response with the local defaults.      *)
(***************************************************************************)
RequestBodyBasic(c, l) == [code |-> c, language |-> l, advanced |-> FALSE]
RequestBody(c, l) == [code |-> c, language |-> l, advanced |-> TRUE]

DefaultComplexity ==
  [time_complexity |-> "O(n)", space_complexity |-> "O(1)",
   details |-> <<"Detected 1 loop, leading to linear time complexity.">>]

DefaultSuggestions ==
  <<"Consider using a dictionary for faster lookups instead of nested loops.">>

DefaultOptimizationSameCode(c) ==
  [suggestions |-> DefaultSuggestions, optimized_code |-> c]
DefaultOptimization(c) ==
  [suggestions |-> DefaultSuggestions, optimized_code |-> ReplaceForRange(c)]

DefaultMemory ==
  [estimated_memory_usage |-> "N/A", bottlenecks |-> <<>>, suggestions |-> <<>>]

Has(data, k) == k \in data.present

\* every default is used as soon as the complexity analysis is missing
AdvancedDataCoupled(data, c) ==
  LET all == Has(data, "complexity_analysis")
  IN [flowchart |->
        IF Has(data, "flowchart") /\ data.flowchart # "" THEN data.flowchart ELSE "",
      execution_steps |->
        IF Has(data, "execution_steps") THEN data.execution_steps ELSE <<>>,
      complexity_analysis |->
        IF all THEN data.complexity_analysis ELSE DefaultComplexity,
      optimization_suggestions |->
        IF all /\ Has(data, "optimization_suggestions")
          THEN data.optimization_suggestions ELSE DefaultOptimization(c),
      memory_analysis |->
        IF all /\ Has(data, "memory_analysis")
          THEN data.memory_analysis ELSE DefaultMemory]

\* data.x || default; an object or an array is truthy, "" is falsy
AdvancedData(data, c) ==
  [flowchart |->
     IF Has(data, "flowchart") /\ data.flowchart # "" THEN data.flowchart ELSE "",
   execution_steps |->
     IF Has(data, "execution_steps") THEN data.execution_steps ELSE <<>>,
   complexity_analysis |->
     IF Has(data, "complexity_analysis")
       THEN data.complexity_analysis ELSE DefaultComplexity,
   optimization_suggestions |->
     IF Has(data, "optimization_suggestions")
       THEN data.optimization_suggestions ELSE DefaultOptimization(c),
   memory_analysis |->
     IF Has(data, "memory_analysis") THEN data.memory_analysis ELSE DefaultMemory]

\* if (advancedData.flowchart) confetti(...) else setErrorMsg(...)
ErrorAfterApplyNever(flowchart, previous) == previous
ErrorAfterApply(flowchart, previous) ==
  IF flowchart # "" THEN previous ELSE MsgGenerationFailed

\* a handler that calls neither fetch nor console.error
NoOutput == sent' = Null /\ consoleLog' = Null

\* a handler that is no playback control
NoPlayback == control' = Null /\ ticks' = Null

(***************************************************************************)
(* The highlight effect (dependencies currentStep and executionSteps) and  *)
(* the DOM it writes.  The flowchart markup "<svg/>" of the model has one  *)
(* g.node, whose <title> is the node_id of the first step.  The nodes are  *)
(* created anew, without filter, when the markup changes, and they are     *)
(* gone when the flowchart section is not rendered.  Every handler that    *)
(* changes the markup also gives executionSteps a new array, so the effect *)
(* runs after it.                                                          *)
(***************************************************************************)
SvgNodes(svg) == IF svg = "" THEN {} ELSE {StepAt(1).node_id}

\* the nodes the forEach of lines 234-243 leaves with the drop-shadow
Matching(svg, nodeId) == {node \in SvgNodes(svg) : node = nodeId}

\* an effect that leaves the other nodes alone when no node matches
HighlightEffectKeeping ==
  highlighted' =
    IF flowchartSvg' = "" THEN {}
    ELSE IF /\ currentStep' >= 0
            /\ currentStep' < Len(executionSteps')
            /\ <<currentStep', executionSteps', flowchartSvg'>>
                 # <<currentStep, executionSteps, flowchartSvg>>
            /\ Matching(flowchartSvg', executionSteps'[currentStep' + 1].node_id) # {}
         THEN Matching(flowchartSvg', executionSteps'[currentStep' + 1].node_id)
         ELSE IF flowchartSvg' = flowchartSvg THEN highlighted ELSE {}

\* the DOM after the render and the effect that follow a handler
HighlightEffect ==
  highlighted' =
    IF flowchartSvg' = "" THEN {}
    ELSE IF /\ currentStep' >= 0
            /\ currentStep' < Len(executionSteps')
            /\ <<currentStep', executionSteps', flowchartSvg'>>
                 # <<currentStep, executionSteps, flowchartSvg>>
         THEN Matching(flowchartSvg', executionSteps'[currentStep' + 1].node_id)
         ELSE IF flowchartSvg' = flowchartSvg THEN highlighted ELSE {}

RemoveAt(seq, i) == SubSeq(seq, 1, i - 1) \o SubSeq(seq, i + 1, Len(seq))

(***************************************************************************)
(* The state after the component is constructed.                           *)
(***************************************************************************)
Init ==
  /\ code = <<>>
  /\ language = "python"
  /\ flowchartSvg = ""
  /\ executionSteps = <<>>
  /\ currentStep = -1
  /\ isPlaying = FALSE
  /\ loading = FALSE
  /\ errorMsg = MsgNone
  /\ complexityAnalysis = Null
  /\ optimizationSuggestions = Null
  /\ memoryAnalysis = Null
  /\ requests = <<>>
  /\ sent = Null
  /\ consoleLog = Null
  /\ received = Null
  /\ control = Null
  /\ ticks = Null
  /\ highlighted = {}
  /\ flowchartCall = [phase |-> "idle"]

(***************************************************************************)
(* User input.                                                             *)
(***************************************************************************)
SetCode(c) ==
  /\ code' = c
  /\ received' = Null
  /\ NoPlayback
  /\ UNCHANGED <<language, flowchartSvg, executionSteps, currentStep, isPlaying,
                 loading, errorMsg, complexityAnalysis, optimizationSuggestions,
                 memoryAnalysis, requests>>
  /\ NoOutput
  /\ UNCHANGED <<highlighted, flowchartCall>>

SetLanguage(l) ==
  /\ language' = l
  /\ received' = Null
  /\ NoPlayback
  /\ UNCHANGED <<code, flowchartSvg, executionSteps, currentStep, isPlaying,
                 loading, errorMsg, complexityAnalysis, optimizationSuggestions,
                 memoryAnalysis, requests>>
  /\ NoOutput
  /\ UNCHANGED <<highlighted, flowchartCall>>

(***************************************************************************)
(* generateFlowchart, up to its first await.  The button that calls it is  *)
(* disabled while loading.                                                 *)
(***************************************************************************)
RejectBlankClearing ==
  /\ errorMsg' = MsgEnterCode
  /\ currentStep' = -1
  /\ executionSteps' = <<>>
  /\ isPlaying' = FALSE
  /\ complexityAnalysis' = Null
  /\ optimizationSuggestions' = Null
  /\ memoryAnalysis' = Null
  /\ UNCHANGED <<code, language, flowchartSvg, loading, requests>>
  /\ NoOutput

RejectBlank ==
  /\ errorMsg' = MsgEnterCode
  /\ UNCHANGED <<code, language, flowchartSvg, executionSteps, currentStep,
                 isPlaying, loading, complexityAnalysis, optimizationSuggestions,
                 memoryAnalysis, requests>>
  /\ NoOutput

\* lines 255-284: the clearing, then fetch with the body; earlier is the list
\* of the calls that have not finished
StartRequest(earlier) ==
  /\ errorMsg' = MsgNone
  /\ loading' = TRUE
  /\ currentStep' = -1
  /\ executionSteps' = <<>>
  /\ isPlaying' = FALSE
  /\ complexityAnalysis' = Null
  /\ optimizationSuggestions' = Null
  /\ memoryAnalysis' = Null
  /\ requests' = Append(earlier,
                         [code |-> code, phase |-> "fetch", superseded |-> FALSE])
  /\ sent' = RequestBody(code, language)
  /\ consoleLog' = Null
  /\ UNCHANGED <<code, language, flowchartSvg>>

AcceptSubmit == Len(requests) < MaxInFlight /\ StartRequest(requests)

GenerateFlowchart ==
  /\ ~loading
  /\ received' = Null
  /\ NoPlayback
  /\ IF IsBlank(code) THEN RejectBlank ELSE AcceptSubmit
  /\ HighlightEffect
  /\ UNCHANGED flowchartCall

(***************************************************************************)
(* generateFlowchart after an await.  Request i is the i-th call that has  *)
(* not finished; c is the code its closure captured.                       *)
(***************************************************************************)
\* catch (error) { console.error; setErrorMsg } finally { setLoading(false) }
\* with the result slots also reset
CatchAndFinallyClearing(error) ==
  /\ consoleLog' = error
  /\ errorMsg' = ErrorMessageFor(error)
  /\ loading' = FALSE
  /\ flowchartSvg' = ""
  /\ executionSteps' = <<>>
  /\ complexityAnalysis' = Null
  /\ optimizationSuggestions' = Null
  /\ memoryAnalysis' = Null
  /\ sent' = Null
  /\ UNCHANGED <<code, language, currentStep, isPlaying>>

\* catch (error) { console.error; setErrorMsg } finally { setLoading(false) }
CatchAndFinally(error) ==
  /\ consoleLog' = error
  /\ errorMsg' = ErrorMessageFor(error)
  /\ loading' = FALSE
  /\ sent' = Null
  /\ UNCHANGED <<code, language, flowchartSvg, executionSteps, currentStep,
                 isPlaying, complexityAnalysis, optimizationSuggestions,
                 memoryAnalysis>>

\* fetch resolves with the response: clearTimeout, then the status check
ReceiveResponse(i, status) ==
  /\ requests[i].phase = "fetch"
  /\ received' = [status |-> status]
  /\ NoPlayback
  /\ IF Ok(status)
       THEN /\ requests' = [requests EXCEPT ![i].phase = "json"]
            /\ UNCHANGED <<code, language, flowchartSvg, executionSteps,
                           currentStep, isPlaying, loading, errorMsg,
                           complexityAnalysis, optimizationSuggestions,
                           memoryAnalysis>>
            /\ NoOutput
       ELSE /\ requests' = RemoveAt(requests, i)
            /\ CatchAndFinally(HttpError(status))
  /\ UNCHANGED <<highlighted, flowchartCall>>

\* fetch rejects (connection refused, DNS, CORS): the abort timer of the
\* request stays armed
FetchFails(i) ==
  /\ requests[i].phase = "fetch"
  /\ received' = Null
  /\ NoPlayback
  /\ requests' = [requests EXCEPT ![i].phase = "settled"]
  /\ CatchAndFinally(NetworkError)
  /\ UNCHANGED <<highlighted, flowchartCall>>

\* a timer whose abort is followed by the same request again
TimeoutFiresRetrying(i) ==
  /\ requests[i].phase \in {"fetch", "settled"}
  /\ received' = Null
  /\ NoPlayback
  /\ IF requests[i].phase = "fetch"
       THEN /\ requests' = requests
            /\ consoleLog' = AbortError
            /\ errorMsg' = ErrorMessageFor(AbortError)
            /\ loading' = FALSE
            /\ sent' = RequestBody(requests[i].code, language)
            /\ UNCHANGED <<code, language, flowchartSvg, executionSteps,
                           currentStep, isPlaying, complexityAnalysis,
                           optimizationSuggestions, memoryAnalysis>>
       ELSE /\ requests' = RemoveAt(requests, i)
            /\ UNCHANGED <<code, language, flowchartSvg, executionSteps,
                           currentStep, isPlaying, loading, errorMsg,
                           complexityAnalysis, optimizationSuggestions,
                           memoryAnalysis>>
            /\ NoOutput
  /\ UNCHANGED <<highlighted, flowchartCall>>

\* the 10 s timer fires: controller.abort() rejects a pending fetch with an
\* AbortError and does nothing to a fetch that has already settled
TimeoutFires(i) ==
  /\ requests[i].phase \in {"fetch", "settled"}
  /\ requests' = RemoveAt(requests, i)
  /\ received' = Null
  /\ NoPlayback
  /\ IF requests[i].phase = "fetch"
       THEN CatchAndFinally(AbortError)
       ELSE /\ UNCHANGED <<code, language, flowchartSvg, executionSteps,
                           currentStep, isPlaying, loading, errorMsg,
                           complexityAnalysis, optimizationSuggestions,
                           memoryAnalysis>>
            /\ NoOutput
  /\ UNCHANGED <<highlighted, flowchartCall>>

\* response.json() rejects: the body is not JSON, or the connection dropped
BodyFails(i) ==
  /\ requests[i].phase = "json"
  /\ received' = Null
  /\ NoPlayback
  /\ requests' = RemoveAt(requests, i)
  /\ CatchAndFinally(BodyError)
  /\ UNCHANGED <<highlighted, flowchartCall>>

\* the setters of lines 309-313 rendered one group at a time: the state
\* after the flowchart and the steps are set, before the analysis slots are
ApplyResponsePartial(i, data) ==
  /\ requests[i].phase = "json"
  /\ LET advancedData == AdvancedData(data, requests[i].code)
     IN  /\ received' = [data |-> data, code |-> requests[i].code]
         /\ flowchartSvg' = advancedData.flowchart
         /\ executionSteps' = advancedData.execution_steps
         /\ errorMsg' = ErrorAfterApply(advancedData.flowchart, errorMsg)
  /\ loading' = FALSE
  /\ requests' = RemoveAt(requests, i)
  /\ UNCHANGED <<code, language, currentStep, isPlaying, complexityAnalysis,
                 optimizationSuggestions, memoryAnalysis>>
  /\ NoOutput
  /\ NoPlayback
  /\ HighlightEffect
  /\ UNCHANGED flowchartCall

\* response.json() resolves with data: lines 287-319, then finally
ApplyResponse(i, data) ==
  /\ requests[i].phase = "json"
  /\ LET advancedData == AdvancedData(data, requests[i].code)
     IN  /\ received' = [data |-> data, code |-> requests[i].code]
         /\ flowchartSvg' = advancedData.flowchart
         /\ executionSteps' = advancedData.execution_steps
         /\ complexityAnalysis' = advancedData.complexity_analysis
         /\ optimizationSuggestions' = advancedData.optimization_suggestions
         /\ memoryAnalysis' = advancedData.memory_analysis
         /\ errorMsg' = ErrorAfterApply(advancedData.flowchart, errorMsg)
  /\ loading' = FALSE
  /\ requests' = RemoveAt(requests, i)
  /\ UNCHANGED <<code, language, currentStep, isPlaying>>
  /\ NoOutput
  /\ NoPlayback
  /\ HighlightEffect
  /\ UNCHANGED flowchartCall

(***************************************************************************)
(* handleRefresh                                                           *)
(***************************************************************************)
\* a refresh that leaves the playback cursor alone
HandleRefreshKeepingCursor ==
  /\ received' = Null
  /\ NoPlayback
  /\ code' = <<>>
  /\ language' = "python"
  /\ flowchartSvg' = ""
  /\ executionSteps' = <<>>
  /\ loading' = FALSE
  /\ errorMsg' = MsgNone
  /\ complexityAnalysis' = Null
  /\ optimizationSuggestions' = Null
  /\ memoryAnalysis' = Null
  /\ UNCHANGED <<requests, currentStep, isPlaying>>
  /\ NoOutput
  /\ HighlightEffect
  /\ UNCHANGED flowchartCall

HandleRefresh ==
  /\ received' = Null
  /\ NoPlayback
  /\ code' = <<>>
  /\ language' = "python"
  /\ flowchartSvg' = ""
  /\ executionSteps' = <<>>
  /\ currentStep' = -1
  /\ isPlaying' = FALSE
  /\ loading' = FALSE
  /\ errorMsg' = MsgNone
  /\ complexityAnalysis' = Null
  /\ optimizationSuggestions' = Null
  /\ memoryAnalysis' = Null
  /\ UNCHANGED <<requests>>
  /\ NoOutput
  /\ HighlightEffect
  /\ UNCHANGED flowchartCall

(***************************************************************************)
(* Playback.  The controls are rendered when there is a flowchart and at   *)
(* least one execution step.                                               *)
(***************************************************************************)
ControlsShown == flowchartSvg # "" /\ Len(executionSteps) > 0

Min(a, b) == IF a <= b THEN a ELSE b
Max(a, b) == IF a >= b THEN a ELSE b

\* the updaters given to setCurrentStep by Step Back and Step Forward
StepBackTo(prev) == Max(prev - 1, -1)

StepForwardToUnclamped(prev, steps) == prev + 1
StepForwardTo(prev, steps) == Min(prev + 1, Len(steps) - 1)

\* the Play/Pause button with a pause that rewinds
TogglePlayRewinding ==
  /\ ControlsShown
  /\ received' = Null
  /\ isPlaying' = ~isPlaying
  /\ currentStep' = IF isPlaying THEN -1 ELSE currentStep
  /\ control' = [op |-> IF isPlaying THEN "pause" ELSE "play"]
  /\ ticks' = IF ~isPlaying /\ currentStep = -1 THEN [n |-> 0] ELSE Null
  /\ UNCHANGED <<code, language, flowchartSvg, executionSteps, loading,
                 errorMsg, complexityAnalysis, optimizationSuggestions,
                 memoryAnalysis, requests>>
  /\ NoOutput
  /\ HighlightEffect
  /\ UNCHANGED flowchartCall

\* the Play/Pause button: setIsPlaying(!isPlaying)
TogglePlay ==
  /\ ControlsShown
  /\ received' = Null
  /\ isPlaying' = ~isPlaying
  /\ control' = [op |-> IF isPlaying THEN "pause" ELSE "play"]
  /\ ticks' = IF ~isPlaying /\ currentStep = -1 THEN [n |-> 0] ELSE Null
  /\ UNCHANGED <<code, language, flowchartSvg, executionSteps, currentStep,
                 loading, errorMsg, complexityAnalysis, optimizationSuggestions,
                 memoryAnalysis, requests>>
  /\ NoOutput
  /\ HighlightEffect
  /\ UNCHANGED flowchartCall

\* Step Back, disabled when currentStep <= -1
StepBack ==
  /\ ControlsShown
  /\ ~(currentStep <= -1)
  /\ received' = Null
  /\ isPlaying' = FALSE
  /\ currentStep' = StepBackTo(currentStep)
  /\ control' = [op |-> "back"]
  /\ ticks' = Null
  /\ UNCHANGED <<code, language, flowchartSvg, executionSteps, loading,
                 errorMsg, complexityAnalysis, optimizationSuggestions,
                 memoryAnalysis, requests>>
  /\ NoOutput
  /\ HighlightEffect
  /\ UNCHANGED flowchartCall

\* Step Forward without setIsPlaying(false)
StepForwardPlaying ==
  /\ ControlsShown
  /\ ~(currentStep >= Len(executionSteps) - 1)
  /\ received' = Null
  /\ currentStep' = StepForwardTo(currentStep, executionSteps)
  /\ control' = [op |-> "forward"]
  /\ ticks' = Null
  /\ UNCHANGED <<code, language, flowchartSvg, executionSteps, isPlaying,
                 loading, errorMsg, complexityAnalysis, optimizationSuggestions,
                 memoryAnalysis, requests>>
  /\ NoOutput
  /\ HighlightEffect
  /\ UNCHANGED flowchartCall

\* Step Forward, disabled when currentStep >= executionSteps.length - 1
StepForward ==
  /\ ControlsShown
  /\ ~(currentStep >= Len(executionSteps) - 1)
  /\ received' = Null
  /\ isPlaying' = FALSE
  /\ currentStep' = StepForwardTo(currentStep, executionSteps)
  /\ control' = [op |-> "forward"]
  /\ ticks' = Null
  /\ UNCHANGED <<code, language, flowchartSvg, executionSteps, loading,
                 errorMsg, complexityAnalysis, optimizationSuggestions,
                 memoryAnalysis, requests>>
  /\ NoOutput
  /\ HighlightEffect
  /\ UNCHANGED flowchartCall

\* an interval callback that advances by two steps
TickByTwo ==
  /\ isPlaying
  /\ currentStep < Len(executionSteps) - 1
  /\ received' = Null
  /\ IF currentStep + 1 >= Len(executionSteps)
       THEN isPlaying' = FALSE /\ currentStep' = currentStep
       ELSE isPlaying' = isPlaying /\ currentStep' = currentStep + 2
  /\ control' = [op |-> "tick"]
  /\ ticks' = IF "n" \in DOMAIN ticks THEN [n |-> ticks.n + 1] ELSE Null
  /\ UNCHANGED <<code, language, flowchartSvg, executionSteps, loading,
                 errorMsg, complexityAnalysis, optimizationSuggestions,
                 memoryAnalysis, requests>>
  /\ NoOutput
  /\ HighlightEffect
  /\ UNCHANGED flowchartCall

\* the interval of the playback effect fires; the effect arms it only while
\* isPlaying && currentStep < executionSteps.length - 1 and re-arms it after
\* every change of its dependencies
Tick ==
  /\ isPlaying
  /\ currentStep < Len(executionSteps) - 1
  /\ received' = Null
  /\ IF currentStep + 1 >= Len(executionSteps)
       THEN isPlaying' = FALSE /\ currentStep' = currentStep
       ELSE isPlaying' = isPlaying /\ currentStep' = currentStep + 1
  /\ control' = [op |-> "tick"]
  /\ ticks' = IF "n" \in DOMAIN ticks THEN [n |-> ticks.n + 1] ELSE Null
  /\ UNCHANGED <<code, language, flowchartSvg, executionSteps, loading,
                 errorMsg, complexityAnalysis, optimizationSuggestions,
                 memoryAnalysis, requests>>
  /\ NoOutput
  /\ HighlightEffect
  /\ UNCHANGED flowchartCall

Next ==
  \/ \E c \in CodeInputs : SetCode(c)
  \/ \E l \in LanguageInputs : SetLanguage(l)
  \/ GenerateFlowchart
  \/ \E i \in DOMAIN requests, status \in Statuses : ReceiveResponse(i, status)
  \/ \E i \in DOMAIN requests : FetchFails(i)
  \/ \E i \in DOMAIN requests : TimeoutFires(i)
  \/ \E i \in DOMAIN requests : BodyFails(i)
  \/ \E i \in DOMAIN requests, data \in Responses : ApplyResponse(i, data)
  \/ HandleRefresh
  \/ TogglePlay
  \/ StepBack
  \/ StepForward
  \/ Tick

Spec == Init /\ [][Next]_vars

(***************************************************************************)
(* Overlapping calls.  handleRefresh sets loading to false while a call is *)
(* still in flight, which enables the Generate button again, so a second   *)
(* call can start before the first has finished.  SpecRace admits one more *)
(* call in flight than Spec and, to stay small, one non-blank code, the    *)
(* status 200 and complete response bodies.                                *)
(***************************************************************************)
RaceResponses == {Data(FieldNames, "<svg/>", n) : n \in 0..MaxSteps}

\* history: the code keeps no generation of its calls; SpecRace marks the
\* calls in flight at the time a newer call starts
Superseded(reqs) == [j \in DOMAIN reqs |-> [reqs[j] EXCEPT !.superseded = TRUE]]

GenerateFlowchartRace ==
  /\ ~loading
  /\ received' = Null
  /\ NoPlayback
  /\ IF IsBlank(code)
       THEN RejectBlank
       ELSE Len(requests) < MaxInFlight + 1 /\ StartRequest(Superseded(requests))
  /\ HighlightEffect
  /\ UNCHANGED flowchartCall

NextRace ==
  \/ SetCode(CodeAssign)
  \/ GenerateFlowchartRace
  \/ \E i \in DOMAIN requests : ReceiveResponse(i, 200)
  \/ \E i \in DOMAIN requests, data \in RaceResponses : ApplyResponse(i, data)
  \/ HandleRefresh
  \/ TogglePlay
  \/ StepBack
  \/ StepForward
  \/ Tick

SpecRace == Init /\ [][NextRace]_vars

(***************************************************************************)
(* Properties.                                                             *)
(***************************************************************************)
AllWhitespace(c) == \A k \in DOMAIN c : c[k] \in Whitespace

\* the last handler was resumed with a response status / with a parsed body
GotStatus == "status" \in DOMAIN received
GotBody == "data" \in DOMAIN received
Omits(k) == k \notin received.data.present
Not2xx(status) == ~(200 <= status /\ status <= 299)

\* the steps in which a call of generateFlowchart fails
TimesOut == \E i \in DOMAIN requests : requests[i].phase = "fetch" /\ TimeoutFires(i)
HttpFails ==
  \E i \in DOMAIN requests, status \in Statuses :
    Not2xx(status) /\ ReceiveResponse(i, status)
NetworkFails ==
  \/ \E i \in DOMAIN requests : FetchFails(i)
  \/ \E i \in DOMAIN requests : BodyFails(i)

\* C1: a generateFlowchart call whose code is not blank gives fetch exactly
\* one request, whose body is {code, language, advanced: true} with the code
\* and the language of the session, and starts one call; no other step
\* calls fetch.
C1_OneRequestWithBody ==
  [][/\ GenerateFlowchart /\ ~AllWhitespace(code)
          => /\ sent' = [code |-> code, language |-> language, advanced |-> TRUE]
             /\ language \in {"python", "cpp", "java"}
             /\ requests' = Append(requests, [code |-> code, phase |-> "fetch",
                                              superseded |-> FALSE])
     /\ sent' # Null => GenerateFlowchart /\ ~AllWhitespace(code)]_vars

C1_Witness ==
  /\ sent = [code |-> CodeFor, language |-> "java", advanced |-> TRUE]
  /\ requests # <<>>
  /\ loading

\* C2: a generateFlowchart call whose code is empty or only whitespace calls
\* fetch zero times, starts no call and leaves the message "Please enter
\* some code.", whatever the state before the call.
C2_BlankRejected ==
  [][GenerateFlowchart /\ AllWhitespace(code)
       => /\ sent' = Null
          /\ requests' = requests
          /\ errorMsg' = <<"Please enter some code.">>]_vars

C2_Witness ==
  /\ code = CodeSpaces
  /\ errorMsg = MsgEnterCode
  /\ sent = Null
  /\ requests = <<>>
  /\ flowchartSvg # ""

\* C3: a generateFlowchart call with blank code changes none of flowchart,
\* executionSteps, the three analysis slots, currentStep, isPlaying, loading.
C3_BlankLeavesSession ==
  [][GenerateFlowchart /\ AllWhitespace(code)
       => UNCHANGED <<flowchartSvg, executionSteps, complexityAnalysis,
                      optimizationSuggestions, memoryAnalysis, currentStep,
                      isPlaying, loading>>]_vars

C3_Witness ==
  /\ AllWhitespace(code)
  /\ errorMsg = MsgEnterCode
  /\ executionSteps # <<>>
  /\ complexityAnalysis # Null
  /\ currentStep >= 0
  /\ isPlaying

\* C4: right after a submit with non-blank code is accepted, the session
\* holds nothing of the previous result: the flowchart, the steps and the
\* three analysis slots are empty and the cursor is (-1, false).
C4_ClearedOnSubmit ==
  sent # Null
    => /\ flowchartSvg = ""
       /\ executionSteps = <<>>
       /\ complexityAnalysis = Null
       /\ optimizationSuggestions = Null
       /\ memoryAnalysis = Null
       /\ currentStep = -1
       /\ isPlaying = FALSE

\* C5: after a response body is applied, each of the three analysis slots
\* holds the server's value when the body carries the field and the local
\* default when it does not, whatever the other fields are.
C5_IndependentMerge ==
  GotBody =>
    /\ complexityAnalysis =
         IF Omits("complexity_analysis") THEN DefaultComplexity
         ELSE received.data.complexity_analysis
    /\ optimizationSuggestions =
         IF Omits("optimization_suggestions") THEN DefaultOptimization(received.code)
         ELSE received.data.optimization_suggestions
    /\ memoryAnalysis =
         IF Omits("memory_analysis") THEN DefaultMemory
         ELSE received.data.memory_analysis

C5_Witness ==
  /\ GotBody
  /\ Omits("complexity_analysis")
  /\ ~Omits("optimization_suggestions")
  /\ Omits("memory_analysis")
  /\ complexityAnalysis = DefaultComplexity
  /\ optimizationSuggestions = ServerOptimization

C7_GenerationFailed ==
  GotBody /\ (Omits("flowchart") \/ received.data.flowchart = "")
    => /\ errorMsg = <<"Error generating flowchart.">>
       /\ flowchartSvg = ""
       /\ loading = FALSE

C7_Witness ==
  /\ GotBody
  /\ received.data.present = FieldNames \ {"flowchart"}
  /\ executionSteps # <<>>
  /\ complexityAnalysis = ServerComplexity
  /\ errorMsg = MsgGenerationFailed

\* a step that applies a body without a usable flowchart
NoFlowchartApplied == GotBody' /\ flowchartSvg' = ""

\* C8: when the abort timer fires on a pending fetch, the call ends, the
\* session shows the timed-out message and is not loading; no other failure
\* of a call (rejected fetch, non-2xx status, unreadable body, missing
\* flowchart) ends with that message.
C8_TimedOutDistinct ==
  [][/\ TimesOut
          => /\ errorMsg' = <<"Request timed out. Please try again.">>
             /\ loading' = FALSE
             /\ Len(requests') = Len(requests) - 1
     /\ (HttpFails \/ NetworkFails \/ NoFlowchartApplied)
          => /\ errorMsg' # <<"Request timed out. Please try again.">>
             /\ errorMsg' # <<>>]_vars

C8_Witness ==
  /\ errorMsg = MsgTimedOut
  /\ consoleLog = AbortError
  /\ requests = <<>>
  /\ ~loading

\* C9 as stated: after a non-2xx response the message shown to the user
\* carries the status code.
C9_StatusSurfaced ==
  GotStatus /\ Not2xx(received.status)
    => Contains(errorMsg, DecimalString(received.status))

\* C9 amended: after a non-2xx response the session shows the generic
\* "Server failed. Check console." message, the one a network failure gives,
\* and is not loading; the status code is only in the Error given to
\* console.error.
C9_StatusOnlyInConsole ==
  GotStatus /\ Not2xx(received.status)
    => /\ errorMsg = <<"Server failed. Check console.">>
       /\ loading = FALSE
       /\ consoleLog.name = "Error"
       /\ consoleLog.message =
            <<"HTTP error! Status: ">> \o
              (IF received.status = 404 THEN <<"4", "0", "4">> ELSE <<"5", "0", "0">>)

C9_Witness ==
  /\ GotStatus
  /\ received.status = 404
  /\ errorMsg = MsgServerFailed
  /\ consoleLog = HttpError(404)

NewerCompleted(i) ==
  /\ requests[i].superseded
  /\ \A j \in DOMAIN requests : j > i => requests[j].phase = "settled"

\* the step applies the body of such a call
StaleApplied ==
  /\ GotBody'
  /\ \E i \in DOMAIN requests :
       NewerCompleted(i) /\ requests' = RemoveAt(requests, i)

\* the step applies a body that has a flowchart
ResultApplied == GotBody' /\ flowchartSvg' # ""

\* C11: the response of a superseded call that arrives after a newer call
\* has completed changes neither the flowchart, nor the execution steps, nor
\* any analysis slot.
C11_StaleResponseIgnored == [][StaleApplied => UNCHANGED slots]_vars

\* C12: in every reachable state -1 <= currentStep <= len(executionSteps) - 1,
\* so executionSteps[currentStep] exists whenever currentStep >= 0.
C12_CursorInRange ==
  /\ -1 <= currentStep
  /\ currentStep <= Len(executionSteps) - 1

\* C13: whenever a successful response is applied as the new result, the
\* resulting state has currentStep = -1 and isPlaying = false.
C13_CursorResetOnApply ==
  [][ResultApplied => currentStep' = -1 /\ isPlaying' = FALSE]_vars

\* the playback control the step is
Pressed(op) == control' = [op |-> op]

\* the ticks of an undisturbed run from Idle are being counted
Counting == "n" \in DOMAIN ticks

\* no interval callback runs while isPlaying is false
NoTickWhilePaused == ~isPlaying => ~Pressed("tick")

\* C14: from currentStep = -1 with N >= 1 steps, Play followed by k ticks
\* and nothing else gives currentStep = min(k - 1, N - 1).
C14_PlayFromIdle ==
  Counting /\ ticks.n >= 1
    => currentStep = Min(ticks.n - 1, Len(executionSteps) - 1)

C14_Witness ==
  /\ Counting
  /\ ticks.n = Len(executionSteps)
  /\ ticks.n >= 2
  /\ isPlaying

\* C15: when the ticker brings currentStep to the last step, isPlaying is
\* cleared to false without any user action.
C15_AutoClearAtLastStep ==
  [][Pressed("tick") /\ currentStep' = Len(executionSteps') - 1
       => isPlaying' = FALSE]_vars

\* C16: Play pressed at currentStep = N - 1 does not leave isPlaying true.
C16_PlayOnlyBeforeLastStep ==
  [][Pressed("play") /\ currentStep = Len(executionSteps) - 1
       => isPlaying' = FALSE]_vars

\* C17: Pause sets isPlaying to false and leaves currentStep, executionSteps
\* and the result slots as they are; while isPlaying is false no tick runs,
\* and only Play sets isPlaying to true again.
C17_PauseFrame ==
  [][/\ Pressed("pause") => isPlaying' = FALSE /\ UNCHANGED <<currentStep, slots>>
     /\ NoTickWhilePaused
     /\ ~isPlaying /\ isPlaying' => Pressed("play")]_vars

C17_Witness ==
  /\ control = [op |-> "pause"]
  /\ ~isPlaying
  /\ currentStep >= 0
  /\ currentStep < Len(executionSteps) - 1

\* C18: Step Forward moves currentStep to min(currentStep + 1, N - 1), Step
\* Back to max(currentStep - 1, -1); both leave isPlaying false, so no tick
\* runs after a manual step until Play is pressed.
C18_ManualStep ==
  [][/\ Pressed("forward")
          => /\ currentStep' = Min(currentStep + 1, Len(executionSteps) - 1)
             /\ isPlaying' = FALSE
     /\ Pressed("back")
          => /\ currentStep' = Max(currentStep - 1, -1)
             /\ isPlaying' = FALSE
     /\ control \in {[op |-> "forward"], [op |-> "back"]}
          => ~Pressed("tick")]_vars

C18_Witness ==
  /\ control = [op |-> "forward"]
  /\ ~isPlaying
  /\ currentStep = 1
  /\ Len(executionSteps) > currentStep

\* C19: Step Forward at currentStep = N - 1 and Step Back at currentStep = -1
\* are no-ops: the updater gives back the same currentStep, the disabled
\* button runs no handler, and no step handler writes errorMsg.
C19_BoundaryNoOp ==
  [][/\ ControlsShown /\ currentStep = Len(executionSteps) - 1
          => /\ StepForwardTo(currentStep, executionSteps) = currentStep
             /\ ~Pressed("forward")
     /\ ControlsShown /\ currentStep = -1
          => /\ StepBackTo(currentStep) = currentStep
             /\ ~Pressed("back")
     /\ Pressed("forward") \/ Pressed("back") => UNCHANGED errorMsg]_vars

C19_Witness ==
  /\ ControlsShown
  /\ control = [op |-> "forward"]
  /\ currentStep = Len(executionSteps) - 1
  /\ errorMsg = MsgNone

\* C20: an accepted submit and a refresh both end with currentStep = -1 and
\* isPlaying = false, and no tick runs while isPlaying is false.
C20_SubmitAndRefreshStopPlayback ==
  [][/\ sent' # Null \/ HandleRefresh
          => currentStep' = -1 /\ isPlaying' = FALSE
     /\ NoTickWhilePaused]_vars

C20_Witness ==
  /\ sent # Null
  /\ flowchartSvg # ""
  /\ currentStep = -1
  /\ ~isPlaying

(***************************************************************************)
(* Progress.  The only step the runtime itself guarantees is the 10 s      *)
(* timer of setTimeout: an armed timer that is not cleared fires.  What    *)
(* the service and the user do is not guaranteed.                          *)
(***************************************************************************)
TimerFires == \E i \in DOMAIN requests : TimeoutFires(i)

SpecLive == Init /\ [][Next]_vars /\ WF_vars(TimerFires)

\* C21: after every accepted submit the session eventually leaves the
\* loading state, whatever the service does.
C21_EventuallyNotLoading == loading ~> ~loading

\* C22: a submit that ends in a timeout, a transport error or a failed
\* generation issues no further request; a request is issued only by an
\* accepted submit, one per submit.
C22_NoAutomaticRetry ==
  [][/\ consoleLog' # Null \/ NoFlowchartApplied
          => sent' = Null /\ Len(requests') <= Len(requests)
     /\ sent' # Null \/ Len(requests') > Len(requests)
          => /\ GenerateFlowchart
             /\ sent' # Null
             /\ Len(requests') = Len(requests) + 1]_vars

C22_Witness ==
  /\ consoleLog = AbortError
  /\ errorMsg = MsgTimedOut
  /\ sent = Null
  /\ requests = <<>>
  /\ ~loading

\* C23: every change of currentStep that is not made by Step Forward, Step
\* Back, an accepted submit or a refresh is made by a tick and increases
\* currentStep by exactly 1.
C23_TickerOnlyAdvance ==
  [][/\ currentStep' # currentStep
          => \/ Pressed("forward")
             \/ Pressed("back")
             \/ sent' # Null
             \/ HandleRefresh
             \/ Pressed("tick")
     /\ Pressed("tick") => currentStep' = currentStep + 1]_vars

C23_Witness ==
  /\ control = [op |-> "tick"]
  /\ ~Counting
  /\ currentStep >= 1
  /\ isPlaying

\* C24: a response is applied in one step: the step that applies a body
\* sets all five result slots from that body, and every other step that
\* writes a result slot is a clearing (an accepted submit or a refresh).
C24_AtomicPopulate ==
  [][/\ GotBody'
          => LET ad == AdvancedData(received'.data, received'.code)
             IN  slots' = <<ad.flowchart, ad.execution_steps,
                            ad.complexity_analysis,
                            ad.optimization_suggestions, ad.memory_analysis>>
     /\ ~GotBody' /\ slots' # slots
          => /\ sent' # Null \/ HandleRefresh
             /\ executionSteps' = <<>>
             /\ complexityAnalysis' = Null
             /\ optimizationSuggestions' = Null
             /\ memoryAnalysis' = Null]_vars

C24_Witness ==
  /\ GotBody
  /\ flowchartSvg = "<svg/>"
  /\ Len(executionSteps) >= 2
  /\ complexityAnalysis = ServerComplexity
  /\ memoryAnalysis = DefaultMemory

\* C25: no call that has finished (its finally has run) still has its
\* abort timer armed.
C25_NoTimerAfterFinish ==
  \A i \in DOMAIN requests : requests[i].phase # "settled"

(***************************************************************************)
(* Highlighting.                                                           *)
(***************************************************************************)
\* the step moves currentStep to a step whose node_id is the <title> of no
\* node of the rendered flowchart
NoMatchStep ==
  /\ currentStep' # currentStep
  /\ flowchartSvg' # ""
  /\ currentStep' >= 0
  /\ currentStep' < Len(executionSteps')
  /\ Matching(flowchartSvg', executionSteps'[currentStep' + 1].node_id) = {}

\* C26 as stated: when currentStep changes to a step whose node_id matches
\* no node, the set of highlighted nodes is unchanged and no error state is
\* entered.
C26_NoMatchKeepsHighlight ==
  [][NoMatchStep => highlighted' = highlighted /\ errorMsg' = errorMsg]_vars

\* C26 amended: when currentStep changes to a step whose node_id matches no
\* node, no node is highlighted afterwards (the previous highlight is
\* removed); the result slots, loading and the error message are unchanged.
C26_NoMatchClearsHighlight ==
  [][NoMatchStep
       => /\ highlighted' = {}
          /\ errorMsg' = errorMsg
          /\ UNCHANGED <<slots, loading>>]_vars

C26_Witness ==
  /\ control = [op |-> "forward"]
  /\ flowchartSvg # ""
  /\ currentStep = 1
  /\ Len(executionSteps) = 2
  /\ Matching(flowchartSvg, executionSteps[currentStep + 1].node_id) = {}
  /\ highlighted = {}

\* the nodes whose id is the node_id of the current step
CurrentNodes ==
  IF flowchartSvg # "" /\ currentStep >= 0 /\ currentStep < Len(executionSteps)
  THEN Matching(flowchartSvg, executionSteps[currentStep + 1].node_id)
  ELSE {}

\* C29: Play, Pause, Step Forward, Step Back and ticks keep the highlighted
\* nodes exactly the nodes whose id is the node_id of the current step; when
\* currentStep = -1 no node is highlighted.
C29_HighlightIsCurrentNode ==
  [][control' # Null /\ highlighted = CurrentNodes
       => highlighted' = CurrentNodes']_vars

(***************************************************************************)
(* Refresh and outstanding calls.                                          *)
(***************************************************************************)
\* nothing is shown: the state of the result and of the message after a
\* refresh
SessionReset ==
  /\ flowchartSvg = ""
  /\ executionSteps = <<>>
  /\ complexityAnalysis = Null
  /\ optimizationSuggestions = Null
  /\ memoryAnalysis = Null
  /\ errorMsg = MsgNone

\* C27: after a refresh the result slots and the error message stay empty
\* until the next submit, also when the response of a call that was
\* outstanding at the refresh arrives.  (A session that is reset and not
\* loading has had no submit since its start or its last refresh.)
C27_StaysReset ==
  [][SessionReset /\ ~loading /\ ~GenerateFlowchart => SessionReset']_vars

\* C28: at most one call is waiting for its response at any time.
C28_AtMostOneOutstanding ==
  Cardinality({i \in DOMAIN requests : requests[i].phase # "settled"}) <= 1

(***************************************************************************)
(* fetchFlowchart (codeParser.js): one call at a time, from the call to    *)
(* the value it returns.  The FlowchartGenerator component is not          *)
(* involved.                                                               *)
(***************************************************************************)
componentVars ==
  <<code, language, flowchartSvg, executionSteps, currentStep, isPlaying,
    loading, errorMsg, complexityAnalysis, optimizationSuggestions,
    memoryAnalysis, requests, sent, consoleLog, received, control, ticks,
    highlighted>>

MsgErrorGenerating == "Error generating flowchart"
MsgErrorFetching == "Error fetching flowchart"

\* data.flowchart without the default
FlowchartOrDefaultRaw(data) == data.flowchart
\* data.flowchart || "Error generating flowchart"
FlowchartOrDefault(data) ==
  IF Has(data, "flowchart") /\ data.flowchart # ""
  THEN data.flowchart
  ELSE MsgErrorGenerating

\* the bodies response.json() can resolve with: an object, or null
FlowchartBodies == Responses \cup {Null}

CallFetchFlowchart(c) ==
  /\ flowchartCall.phase \in {"idle", "returned"}
  /\ flowchartCall' = [phase |-> "fetch", code |-> c]
  /\ UNCHANGED componentVars

\* fetch resolves; if (!response.ok) throw, caught by the catch of line 76
FlowchartFetchResolves(status) ==
  /\ flowchartCall.phase = "fetch"
  /\ flowchartCall' =
       IF Ok(status)
       THEN [phase |-> "json", code |-> flowchartCall.code, status |-> status]
       ELSE [phase |-> "returned", code |-> flowchartCall.code,
             status |-> status, result |-> MsgErrorFetching]
  /\ UNCHANGED componentVars

\* fetch rejects
FlowchartFetchRejects ==
  /\ flowchartCall.phase = "fetch"
  /\ flowchartCall' = [phase |-> "returned", code |-> flowchartCall.code,
                        result |-> MsgErrorFetching]
  /\ UNCHANGED componentVars

\* response.json() resolves; reading .flowchart of null throws a TypeError,
\* which the catch turns into the fetching message
FlowchartBodyResolves(data) ==
  /\ flowchartCall.phase = "json"
  /\ flowchartCall' =
       [phase |-> "returned", code |-> flowchartCall.code,
        status |-> flowchartCall.status, body |-> data,
        result |-> IF data = Null THEN MsgErrorFetching
                   ELSE FlowchartOrDefault(data)]
  /\ UNCHANGED componentVars

\* response.json() rejects
FlowchartBodyRejects ==
  /\ flowchartCall.phase = "json"
  /\ flowchartCall' = [phase |-> "returned", code |-> flowchartCall.code,
                        status |-> flowchartCall.status,
                        result |-> MsgErrorFetching]
  /\ UNCHANGED componentVars

NextFetchFlowchart ==
  \/ \E c \in CodeInputs : CallFetchFlowchart(c)
  \/ \E status \in Statuses : FlowchartFetchResolves(status)
  \/ FlowchartFetchRejects
  \/ \E data \in FlowchartBodies : FlowchartBodyResolves(data)
  \/ FlowchartBodyRejects

SpecFetchFlowchart == Init /\ [][NextFetchFlowchart]_vars

\* the call got a 2xx response whose body has a non-empty flowchart
GotFlowchart ==
  /\ "status" \in DOMAIN flowchartCall
  /\ Ok(flowchartCall.status)
  /\ "body" \in DOMAIN flowchartCall
  /\ flowchartCall.body # Null
  /\ "flowchart" \in flowchartCall.body.present
  /\ flowchartCall.body.flowchart # ""

\* C30: fetchFlowchart returns a string for every outcome of the service:
\* the flowchart of the body when the status is 2xx and the flowchart is not
\* empty, and one of its fixed error strings otherwise.
C30_FetchFlowchartTotal ==
  flowchartCall.phase = "returned"
    => IF GotFlowchart
       THEN flowchartCall.result = flowchartCall.body.flowchart
       ELSE flowchartCall.result \in {MsgErrorGenerating, MsgErrorFetching}

C30_Witness ==
  /\ flowchartCall.phase = "returned"
  /\ "body" \in DOMAIN flowchartCall
  /\ flowchartCall.body # Null
  /\ "flowchart" \notin flowchartCall.body.present
  /\ flowchartCall.result = MsgErrorGenerating
====
